---------------------------- MODULE Spec2Model ----------------------------
(***************************************************************************)
(* Model of overlay.py: bulk overlay of a text label or an image onto      *)
(* base images, one output per CSV row.                                    *)
(*                                                                         *)
(* Text values (CSV fields, paths, file names) are sequences of one-       *)
(* character strings, so that strip(), lower(), Path.suffix, expanduser    *)
(* and the "image_%04d.jpg" formatting are computed character by           *)
(* character as the code computes them.  None and the empty string are     *)
(* both the empty sequence: the code only ever tests them for truth.       *)
(***************************************************************************)
EXTENDS Integers, Sequences, FiniteSets, TLC

(* ----------------------------- text values ----------------------------- *)
T_text == <<"t", "e", "x", "t">>
T_image == <<"i", "m", "a", "g", "e">>
T_bogus == <<"b", "o", "g", "u", "s">>
T_TextPadded == <<" ", "T", "e", "x", "t", " ">>
V_hello == <<"h", "e", "l", "l", "o">>
V_x == <<"x">>
V_logo == <<"~", "/", "l", "o", "g", "o", ".", "p", "n", "g">>
V_nologo == <<"n", "o", "l", "o", "g", "o", ".", "p", "n", "g">>
N_a == <<"a", ".", "j", "p", "g">>
N_b == <<"b", ".", "j", "p", "g">>
N_c == <<"c", ".", "j", "p", "g">>
N_out == <<"o", "u", "t">>
N_blank == <<" ">>
N_xyz == <<"o", "u", "t", ".", "x", "y", "z">>
P_base == <<"b", "a", "s", "e", ".", "p", "n", "g">>
P_basePadded == <<" ", "b", "a", "s", "e", ".", "p", "n", "g">>
P_photo == <<"p", "h", "o", "t", "o", ".", "j", "p", "g">>
P_PHOTO == <<"S", "H", "O", "T", ".", "J", "P", "G">>
P_gone == <<"g", "o", "n", "e", ".", "j", "p", "g">>
P_dotjpg == <<".", "j", "p", "g">>
P_logo == <<"/", "h", "o", "m", "e", "/", "u", "/", "l", "o", "g", "o", ".", "p", "n", "g">>
P_font == <<"f", "o", "n", "t", ".", "t", "t", "f">>
P_nofont == <<"n", "o", "f", "o", "n", "t", ".", "t", "t", "f">>
P_csv == <<"r", "o", "w", "s", ".", "c", "s", "v">>
P_nocsv == <<"g", "o", "n", "e", ".", "c", "s", "v">>
HOME == <<"/", "h", "o", "m", "e", "/", "u">>
OUTPUT_DIR == <<"o", "u", "t", "p", "u", "t">>
EXT_jpg == <<".", "j", "p", "g">>
EXT_jpeg == <<".", "j", "p", "e", "g">>
EXT_png == <<".", "p", "n", "g">>
EXT_webp == <<".", "w", "e", "b", "p">>
EXT_bmp == <<".", "b", "m", "p">>
EXT_tiff == <<".", "t", "i", "f", "f">>
EXT_gif == <<".", "g", "i", "f">>
PREFIX_image == <<"i", "m", "a", "g", "e", "_">>
UPPER == <<"A", "B", "C", "D", "E", "F", "G", "H", "I", "J", "K", "L", "M", "N", "O", "P", "Q", "R", "S", "T", "U", "V", "W", "X", "Y", "Z">>
LOWER == <<"a", "b", "c", "d", "e", "f", "g", "h", "i", "j", "k", "l", "m", "n", "o", "p", "q", "r", "s", "t", "u", "v", "w", "x", "y", "z">>
DIGITS == <<"0", "1", "2", "3", "4", "5", "6", "7", "8", "9">>
WHITESPACE == {" ", "\t", "\n", "\r"}

(* IMAGE_EXTENSIONS, overlay.py line 50 *)
IMAGE_EXTENSIONS == {EXT_jpg, EXT_jpeg, EXT_png, EXT_webp, EXT_bmp, EXT_tiff}

(* The extensions Image.save() has a writer for (a sample of PIL's registry *)
(* that covers IMAGE_EXTENSIONS); any other extension makes save() raise.   *)
SAVE_EXTENSIONS == IMAGE_EXTENSIONS \cup {EXT_gif}

(* ------------------------- str and path methods ------------------------ *)
RECURSIVE lstrip(_)
lstrip(s) == IF s # <<>> /\ Head(s) \in WHITESPACE THEN lstrip(Tail(s)) ELSE s

RECURSIVE rstrip(_)
rstrip(s) ==
    IF s # <<>> /\ s[Len(s)] \in WHITESPACE
    THEN rstrip(SubSeq(s, 1, Len(s) - 1))
    ELSE s

(* str.strip() *)
strip(s) == lstrip(rstrip(s))

lower_char(c) ==
    IF \E k \in 1..Len(UPPER) : UPPER[k] = c
    THEN LOWER[CHOOSE k \in 1..Len(UPPER) : UPPER[k] = c]
    ELSE c

(* str.lower() *)
lower(s) == [k \in 1..Len(s) |-> lower_char(s[k])]

(* 1-based position of the first / last occurrence of c in s, 0 when absent *)
find(s, c) ==
    IF \E k \in 1..Len(s) : s[k] = c
    THEN CHOOSE k \in 1..Len(s) : s[k] = c /\ \A m \in 1..(k - 1) : s[m] # c
    ELSE 0

rfind(s, c) ==
    IF \E k \in 1..Len(s) : s[k] = c
    THEN CHOOSE k \in 1..Len(s) : s[k] = c /\ \A m \in (k + 1)..Len(s) : s[m] # c
    ELSE 0

RECURSIVE split(_)
split(s) ==
    LET k == find(s, "/")
    IN  IF k = 0
        THEN <<s>>
        ELSE <<SubSeq(s, 1, k - 1)>> \o split(SubSeq(s, k + 1, Len(s)))

(* Path(p).name: the final component; empty and "." components are dropped *)
path_name(p) ==
    LET parts == SelectSeq(split(p), LAMBDA c : c # <<>> /\ c # <<".">>)
    IN  IF parts = <<>> THEN <<>> ELSE parts[Len(parts)]

(* Path(p).suffix: from the last dot of the name, unless that dot is the   *)
(* first or the last character of the name                                 *)
suffix(p) ==
    LET n == path_name(p)
        j == rfind(n, ".")
    IN  IF 1 < j /\ j < Len(n) THEN SubSeq(n, j, Len(n)) ELSE <<>>

(* os.path.expanduser: a leading "~" or "~/" becomes the home directory;   *)
(* "~name" of a user the system does not know stays as it is               *)
expanduser(p) ==
    IF p # <<>> /\ p[1] = "~" /\ (Len(p) = 1 \/ p[2] = "/")
    THEN HOME \o Tail(p)
    ELSE p

RECURSIVE digits(_)
digits(n) ==
    IF n < 10
    THEN <<DIGITS[n + 1]>>
    ELSE digits(n \div 10) \o <<DIGITS[(n % 10) + 1]>>

(* f"{n:04d}" *)
format_04d(n) ==
    LET d == digits(n)
    IN  IF Len(d) >= 4 THEN d ELSE [k \in 1..(4 - Len(d)) |-> "0"] \o d

(* out_dir / out_name: an absolute name replaces the directory *)
path_join(dir, name) ==
    IF name # <<>> /\ name[1] = "/" THEN name ELSE dir \o <<"/">> \o name

(* int(a / b) for b > 0: truncation toward zero *)
int_div(a, b) == IF a >= 0 THEN a \div b ELSE 0 - ((0 - a) \div b)

(* overlay.py lines 53-54 *)
is_image_path_nolower(value) == suffix(value) \in IMAGE_EXTENSIONS

is_image_path(value) == lower(suffix(value)) \in IMAGE_EXTENSIONS

(* ------------------------------ geometry ------------------------------- *)
ANCHORS == {"top-left", "top-right", "bottom-left", "bottom-right", "center"}

(* get_xy with the offsets also applied to center *)
get_xy_offset_center(anchor, img_w, img_h, obj_w, obj_h, ox, oy) ==
    CASE anchor = "top-left"     -> <<ox, oy>>
      [] anchor = "top-right"    -> <<img_w - obj_w - ox, oy>>
      [] anchor = "bottom-left"  -> <<ox, img_h - obj_h - oy>>
      [] anchor = "bottom-right" -> <<img_w - obj_w - ox, img_h - obj_h - oy>>
      [] anchor = "center"       -> <<(img_w - obj_w) \div 2 + ox, (img_h - obj_h) \div 2 + oy>>

(* get_xy with the right and bottom insets added instead of subtracted *)
get_xy_wrong_sign(anchor, img_w, img_h, obj_w, obj_h, ox, oy) ==
    CASE anchor = "top-left"     -> <<ox, oy>>
      [] anchor = "top-right"    -> <<img_w - obj_w + ox, oy>>
      [] anchor = "bottom-left"  -> <<ox, img_h - obj_h + oy>>
      [] anchor = "bottom-right" -> <<img_w - obj_w + ox, img_h - obj_h + oy>>
      [] anchor = "center"       -> <<(img_w - obj_w) \div 2, (img_h - obj_h) \div 2>>

(* overlay.py lines 57-64; an anchor outside ANCHORS is a KeyError, which  *)
(* argparse's choices rule out                                             *)
get_xy(anchor, img_w, img_h, obj_w, obj_h, ox, oy) ==
    CASE anchor = "top-left"     -> <<ox, oy>>
      [] anchor = "top-right"    -> <<img_w - obj_w - ox, oy>>
      [] anchor = "bottom-left"  -> <<ox, img_h - obj_h - oy>>
      [] anchor = "bottom-right" -> <<img_w - obj_w - ox, img_h - obj_h - oy>>
      [] anchor = "center"       -> <<(img_w - obj_w) \div 2, (img_h - obj_h) \div 2>>

(* ----------------------------- environment ----------------------------- *)
File(kind, w, h) == [kind |-> kind, w |-> w, h |-> h]

(* The files present when the program starts: three base images, one       *)
(* overlay image in the home directory, a font and the CSV file.           *)
FILES ==
    (P_base :> File("image", 800, 600)) @@
    (P_photo :> File("image", 640, 480)) @@
    (P_PHOTO :> File("image", 640, 480)) @@
    (P_logo :> File("image", 300, 200)) @@
    (P_font :> File("font", 0, 0)) @@
    (P_csv :> File("csv", 0, 0))

NoImage == [loaded |-> FALSE, w |-> 0, h |-> 0]

(* Image.open(path) of an image file *)
image_open(fsys, path) == [loaded |-> TRUE, w |-> fsys[path].w, h |-> fsys[path].h]

(* Path(p).parent of a relative or absolute file path *)
path_parent(p) ==
    LET j == rfind(p, "/")
    IN  IF j = 0 THEN <<".">> ELSE IF j = 1 THEN <<"/">> ELSE SubSeq(p, 1, j - 1)

(* ------------------------------ rendering ------------------------------ *)
(* The font's metrics: every character advances by half the font size and  *)
(* is one font size tall; the plain measurer's bounding box starts at      *)
(* (BBOX_X0, BBOX_Y0) instead of the origin.                               *)
BBOX_X0 == 2
BBOX_Y0 == 10

pilmoji_getsize(label, font_size) == <<Len(label) * (font_size \div 2), font_size>>

textbbox(label, font_size) ==
    <<BBOX_X0, BBOX_Y0,
      BBOX_X0 + Len(label) * (font_size \div 2), BBOX_Y0 + font_size>>

(* overlay.py lines 67-73 *)
measure_text(label, font_size, has_pilmoji) ==
    IF has_pilmoji
    THEN pilmoji_getsize(label, font_size)
    ELSE LET bbox == textbbox(label, font_size)
         IN  <<bbox[3] - bbox[1], bbox[4] - bbox[2]>>

(* overlay.py lines 76-86: the returned (text_w, text_h, x, y) *)
draw_text(img, label, font_size, position, ox, oy, has_pilmoji) ==
    LET size == measure_text(label, font_size, has_pilmoji)
        xy   == get_xy(position, img.w, img.h, size[1], size[2], ox, oy)
    IN  <<size[1], size[2], xy[1], xy[2]>>

(* round(a / b) for a >= 0, b > 0: to the nearest integer, ties to even *)
round_div(a, b) ==
    LET q == a \div b
        r == a % b
    IN  IF 2 * r < b THEN q
        ELSE IF 2 * r > b THEN q + 1
        ELSE IF q % 2 = 0 THEN q ELSE q + 1

(* draw_image_overlay with the height rounded to nearest *)
draw_image_overlay_round(img, overlay, overlay_width, position, ox, oy) ==
    LET new_h == round_div(overlay.h * overlay_width, overlay.w)
        xy    == get_xy(position, img.w, img.h, overlay_width, new_h, ox, oy)
    IN  [raised |-> overlay_width < 1 \/ new_h < 1,
         val    |-> <<overlay_width, new_h, xy[1], xy[2]>>]

(* overlay.py lines 89-95: the returned (overlay_width, new_h, x, y);      *)
(* resize() raises ValueError when a side of the new size is below 1       *)
draw_image_overlay(img, overlay, overlay_width, position, ox, oy) ==
    LET new_h == int_div(overlay.h * overlay_width, overlay.w)
        xy    == get_xy(position, img.w, img.h, overlay_width, new_h, ox, oy)
    IN  [raised |-> overlay_width < 1 \/ new_h < 1,
         val    |-> <<overlay_width, new_h, xy[1], xy[2]>>]

(* --------------------------- row processing ---------------------------- *)
Outcome(result, reason, info, saved) ==
    [result |-> result, reason |-> reason, info |-> info, saved |-> saved]

(* overlay.py lines 117-118: save() takes the format from the extension of *)
(* the path and raises for one it has no writer for, and open() raises     *)
(* when the directory of the path does not exist; both before any write    *)
save(fsys, info, out_path) ==
    IF lower(suffix(out_path)) \notin SAVE_EXTENSIONS
    THEN Outcome("RAISE", "unknown file extension", <<>>, FALSE)
    ELSE IF path_parent(out_path) \notin DOMAIN fsys
    THEN Outcome("RAISE", "no such directory", <<>>, FALSE)
    ELSE Outcome("OK", "", info, TRUE)

(* process_row that writes the file before it dispatches on the row type *)
process_row_save_first(fsys, base, row_type, value, out_path, font, args, has_pilmoji) ==
    IF row_type = T_text
    THEN IF font = <<>>
         THEN Outcome("SKIP", "--font required for text rows", <<>>, FALSE)
         ELSE save(fsys, draw_text(base, value, args.font_size, args.position,
                                   args.x, args.y, has_pilmoji), out_path)
    ELSE IF row_type = T_image
    THEN LET overlay_path == expanduser(value)
         IN  IF overlay_path \notin DOMAIN fsys
             THEN Outcome("SKIP", "overlay not found", <<>>, FALSE)
             ELSE IF fsys[overlay_path].kind # "image"
             THEN Outcome("RAISE", "cannot identify image file", <<>>, FALSE)
             ELSE LET r == draw_image_overlay(base, image_open(fsys, overlay_path),
                                              args.overlay_size, args.position,
                                              args.x, args.y)
                  IN  IF r.raised
                      THEN Outcome("RAISE", "height and width must be > 0", <<>>, FALSE)
                      ELSE save(fsys, r.val, out_path)
    ELSE Outcome("SKIP", "unknown type", <<>>, TRUE)

(* overlay.py lines 98-118 *)
process_row(fsys, base, row_type, value, out_path, font, args, has_pilmoji) ==
    IF row_type = T_text
    THEN IF font = <<>>
         THEN Outcome("SKIP", "--font required for text rows", <<>>, FALSE)
         ELSE save(fsys, draw_text(base, value, args.font_size, args.position,
                                   args.x, args.y, has_pilmoji), out_path)
    ELSE IF row_type = T_image
    THEN LET overlay_path == expanduser(value)
         IN  IF overlay_path \notin DOMAIN fsys
             THEN Outcome("SKIP", "overlay not found", <<>>, FALSE)
             ELSE IF fsys[overlay_path].kind # "image"
             THEN Outcome("RAISE", "cannot identify image file", <<>>, FALSE)
             ELSE LET r == draw_image_overlay(base, image_open(fsys, overlay_path),
                                              args.overlay_size, args.position,
                                              args.x, args.y)
                  IN  IF r.raised
                      THEN Outcome("RAISE", "height and width must be > 0", <<>>, FALSE)
                      ELSE save(fsys, r.val, out_path)
    ELSE Outcome("SKIP", "unknown type", <<>>, FALSE)

(* ------------------------- command-line defaults ----------------------- *)
DEFAULT_FONT_SIZE == 48
DEFAULT_X == 20
DEFAULT_Y == 20
DEFAULT_OVERLAY_SIZE == 150

(* ------------------------------- bounds -------------------------------- *)
MaxRows == 2
MaxNameRows == 5
MaxDim == 3
MaxOff == 1

(* -------------------------------- state -------------------------------- *)
VARIABLES
    args,          \* the parsed command line
    HAS_PILMOJI,   \* whether the emoji renderer was importable
    fs,            \* the file system: path -> file
    csvfile,       \* the records csv.reader yields for args.csv, blank lines as <<>>
    pc,            \* where main is
    font,          \* main's font: <<>> for None, else the loaded font's path
    base_image,    \* main's base_image
    rows,          \* main's rows
    mode2,         \* main's mode2
    i,             \* the row loop's index (0-based)
    image_cache,   \* main's image_cache: path -> image
    console,       \* the lines printed so far
    written,       \* the output images saved so far: row number and path
    loads,         \* the paths handed to Image.open by the row loop, in order
    gin,           \* the arguments of a direct call of a geometry function
    gout           \* its result

vars == <<args, HAS_PILMOJI, fs, csvfile, pc, font, base_image, rows, mode2, i,
          image_cache, console, written, loads, gin, gout>>

Line(kind, idx, result, reason, info, path) ==
    [kind |-> kind, idx |-> idx, result |-> result, reason |-> reason,
     info |-> info, path |-> path]

Note(kind, reason) == Line(kind, 0, "", reason, <<>>, <<>>)

NoCall ==
    [op |-> "none", anchor |-> "center", img_w |-> 0, img_h |-> 0,
     obj_w |-> 0, obj_h |-> 0, ox |-> 0, oy |-> 0, overlay_width |-> 0]

NoResult == [raised |-> FALSE, val |-> <<>>]

SeqsUpTo(S, n) == UNION {[1..k -> S] : k \in 0..n}

(* ------------------------------ CSV rows ------------------------------- *)
(* Mode 1 layout: type, value, output_filename *)
Mode1Rows ==
    { <<T_text, V_hello, N_a>>,
      <<T_image, V_logo, N_out>>,
      <<T_image, V_nologo>>,
      <<T_bogus, V_x, N_b>>,
      <<T_text>>,
      <<T_TextPadded, V_hello, N_blank>>,
      <<T_text, V_hello, N_xyz>> }

(* Mode 2 layout: input_image, type, value, output_filename *)
Mode2Rows ==
    { <<P_base, T_text, V_hello, N_a>>,
      <<P_basePadded, T_image, V_logo, N_out>>,
      <<P_photo, T_image, V_logo>>,
      <<P_PHOTO, T_text, V_hello>>,
      <<T_bogus, T_text, V_hello, N_c>>,
      <<P_base, T_text>>,
      <<P_dotjpg, T_text, V_hello>> }

RowSet == Mode1Rows \cup Mode2Rows \cup {<<>>}

(* Rows whose output-filename column is absent, of both layouts, with rows *)
(* that are skipped among them                                             *)
NameRows ==
    { <<T_text, V_hello>>,
      <<T_bogus, V_x, N_out>>,
      <<P_base, T_text, V_hello>>,
      <<P_gone, T_text, V_hello>> }

Args(a_font, a_image, a_csv) ==
    [font |-> a_font, image |-> a_image, csv |-> a_csv,
     output_dir |-> OUTPUT_DIR, font_size |-> DEFAULT_FONT_SIZE,
     position |-> "bottom-left", x |-> DEFAULT_X, y |-> DEFAULT_Y,
     overlay_size |-> DEFAULT_OVERLAY_SIZE]

Start(a, pilmoji, content) ==
    /\ args = a
    /\ HAS_PILMOJI = pilmoji
    /\ fs = FILES
    /\ csvfile = content
    /\ pc = "start"
    /\ font = <<>>
    /\ base_image = NoImage
    /\ rows = <<>>
    /\ mode2 = FALSE
    /\ i = 0
    /\ image_cache = <<>>
    /\ console = <<>>
    /\ written = <<>>
    /\ loads = <<>>
    /\ gin = NoCall
    /\ gout = NoResult

(* Any command line over present and absent files with a short CSV of any  *)
(* rows, or a complete command line with a longer CSV of NameRows.         *)
Init ==
    \/ \E a_font \in {<<>>, P_font, P_nofont},
          a_image \in {<<>>, P_base, P_gone},
          pilmoji \in BOOLEAN :
          \/ \E content \in SeqsUpTo(RowSet, MaxRows) :
                Start(Args(a_font, a_image, P_csv), pilmoji, content)
          \/ Start(Args(a_font, a_image, P_nocsv), pilmoji, <<>>)
    \/ \E content \in [1..MaxNameRows -> NameRows] :
          Start(Args(P_font, P_base, P_csv), TRUE, content)

(* ---------------------- main: start-up, lines 136-171 ------------------ *)
(* lines 136-146: the banner, the font, the output directory *)
LoadFont ==
    /\ pc = "start"
    /\ LET banner    == Note("BANNER", IF HAS_PILMOJI THEN "pilmoji enabled"
                                                      ELSE "pilmoji not found")
           font_path == expanduser(args.font)
           out_dir   == args.output_dir
       IN  IF args.font # <<>> /\ font_path \notin DOMAIN fs
           THEN /\ console' = console \o <<banner, Note("ERROR", "Font not found")>>
                /\ pc' = "exited"
                /\ UNCHANGED <<font, fs>>
           ELSE IF args.font # <<>> /\ fs[font_path].kind # "font"
           THEN /\ console' = console \o <<banner>>
                /\ pc' = "raised"
                /\ UNCHANGED <<font, fs>>
           ELSE /\ console' = console \o <<banner>>
                /\ font' = IF args.font # <<>> THEN font_path ELSE <<>>
                /\ IF out_dir \in DOMAIN fs /\ fs[out_dir].kind # "dir"
                   THEN pc' = "raised" /\ fs' = fs
                   ELSE pc' = "image" /\ fs' = fs @@ (out_dir :> File("dir", 0, 0))
    /\ UNCHANGED <<args, HAS_PILMOJI, csvfile, base_image, rows, mode2, i,
                   image_cache, written, loads, gin, gout>>

(* lines 148-155: the base image of Mode 1 *)
LoadBaseImage ==
    /\ pc = "image"
    /\ LET image_path == expanduser(args.image)
       IN  IF args.image = <<>>
           THEN pc' = "csv" /\ UNCHANGED <<base_image, console>>
           ELSE IF image_path \notin DOMAIN fs
           THEN /\ console' = console \o <<Note("ERROR", "Base image not found")>>
                /\ pc' = "exited"
                /\ UNCHANGED base_image
           ELSE IF fs[image_path].kind # "image"
           THEN pc' = "raised" /\ UNCHANGED <<base_image, console>>
           ELSE /\ base_image' = image_open(fs, image_path)
                /\ console' = console \o <<Note("MODE", "Mode 1 - single base image")>>
                /\ pc' = "csv"
    /\ UNCHANGED <<args, HAS_PILMOJI, fs, csvfile, font, rows, mode2, i,
                   image_cache, written, loads, gin, gout>>

(* lines 157-158: open() raises when the file is missing; blank records    *)
(* are dropped                                                             *)
ReadCsv ==
    /\ pc = "csv"
    /\ IF args.csv \notin DOMAIN fs
       THEN pc' = "raised" /\ UNCHANGED rows
       ELSE /\ rows' = SelectSeq(csvfile, LAMBDA r : r # <<>>)
            /\ pc' = "detect"
    /\ UNCHANGED <<args, HAS_PILMOJI, fs, csvfile, font, base_image, mode2, i,
                   image_cache, console, written, loads, gin, gout>>

(* line 162 *)
detect_mode2(first) ==
    Len(first) >= 4 \/ (Len(first) >= 1 /\ is_image_path(strip(first[1])))

(* lines 160-171: rows[0] raises IndexError when there are no rows *)
DetectMode ==
    /\ pc = "detect"
    /\ IF rows = <<>>
       THEN pc' = "raised" /\ UNCHANGED <<mode2, console>>
       ELSE LET m2 == detect_mode2(rows[1])
                processing == Note("PROCESSING", "Processing rows")
            IN  /\ mode2' = m2
                /\ IF m2
                   THEN /\ console' = console \o
                                <<Note("MODE", "Mode 2 - image per row"), processing>>
                        /\ pc' = "loop"
                   ELSE IF ~base_image.loaded
                   THEN /\ console' = console \o
                                <<Note("ERROR", "Mode 1 requires --image")>>
                        /\ pc' = "exited"
                   ELSE /\ console' = console \o <<processing>>
                        /\ pc' = "loop"
    /\ i' = 0
    /\ image_cache' = <<>>
    /\ UNCHANGED <<args, HAS_PILMOJI, fs, csvfile, font, base_image, rows,
                   written, loads, gin, gout>>

(* ---------------------- main: the row loop, lines 173-198 -------------- *)
(* f"image_{i+1:04d}.jpg" numbered from the 0-based index *)
default_name_zero_based(idx) == PREFIX_image \o format_04d(idx) \o EXT_jpg

(* f"image_{i+1:04d}.jpg", lines 180 and 190 *)
default_name(idx) == PREFIX_image \o format_04d(idx + 1) \o EXT_jpg

(* lines 180 and 190: the name in column k (0-based) or the default *)
given_out_name(row, k, idx) ==
    IF Len(row) > k /\ strip(row[k + 1]) # <<>>
    THEN strip(row[k + 1])
    ELSE default_name(idx)

(* lines 193-194 *)
with_suffix(out_name) ==
    IF suffix(out_name) = <<>> THEN out_name \o EXT_jpg ELSE out_name

(* line 175 with the bound of the four-column layout *)
too_few_columns_four(row) == Len(row) < 4

(* line 175 *)
too_few_columns(row) == Len(row) < 3

(* line 182 with the cache never consulted *)
cache_miss_always(cache, img_path) == TRUE

(* line 182 *)
cache_miss(cache, img_path) == img_path \notin DOMAIN cache

(* lines 193-198, shared by the two layouts *)
Process(base, row_type, value, out_name) ==
    LET out_path == path_join(args.output_dir, with_suffix(out_name))
        res      == process_row(fs, base, row_type, value, out_path, font, args,
                                HAS_PILMOJI)
    IN  IF res.result = "RAISE"
        THEN /\ pc' = "raised"
             /\ UNCHANGED <<console, written, fs, i>>
        ELSE /\ console' = console \o
                     <<Line("ROW", i + 1, res.result, res.reason, res.info,
                            IF res.result = "OK" THEN out_path ELSE <<>>)>>
             /\ IF res.saved
                THEN /\ written' = Append(written, [idx |-> i + 1, path |-> out_path])
                     /\ fs' = (out_path :> File("image", base.w, base.h)) @@ fs
                ELSE UNCHANGED <<written, fs>>
             /\ i' = i + 1
             /\ pc' = "loop"

Skip(reason) ==
    /\ console' = console \o <<Line("ROW", i + 1, "SKIP", reason, <<>>, <<>>)>>
    /\ i' = i + 1
    /\ pc' = "loop"
    /\ UNCHANGED <<written, fs>>

(* one iteration of the loop of line 173 *)
ProcessRow ==
    /\ pc = "loop"
    /\ i < Len(rows)
    /\ LET row == rows[i + 1]
       IN  IF mode2
           THEN IF too_few_columns(row)
                THEN Skip("not enough columns") /\ UNCHANGED <<image_cache, loads>>
                ELSE LET img_path == expanduser(strip(row[1]))
                         row_type == lower(strip(row[2]))
                         value    == strip(row[3])
                         out_name == given_out_name(row, 3, i)
                     IN  IF cache_miss(image_cache, img_path)
                         THEN IF img_path \notin DOMAIN fs
                              THEN /\ Skip("input image not found")
                                   /\ UNCHANGED <<image_cache, loads>>
                              ELSE IF fs[img_path].kind # "image"
                              THEN /\ pc' = "raised"
                                   /\ UNCHANGED <<console, written, fs, i,
                                                  image_cache, loads>>
                              ELSE /\ image_cache' =
                                        (img_path :> image_open(fs, img_path)) @@ image_cache
                                   /\ loads' = Append(loads, img_path)
                                   /\ Process(image_open(fs, img_path), row_type,
                                              value, out_name)
                         ELSE /\ UNCHANGED <<image_cache, loads>>
                              /\ Process(image_cache[img_path], row_type, value,
                                         out_name)
           ELSE LET row_type == lower(strip(row[1]))
                    value    == IF Len(row) > 1 THEN strip(row[2]) ELSE <<>>
                    out_name == given_out_name(row, 2, i)
                IN  /\ Process(base_image, row_type, value, out_name)
                    /\ UNCHANGED <<image_cache, loads>>
    /\ UNCHANGED <<args, HAS_PILMOJI, csvfile, font, base_image, rows, mode2,
                   gin, gout>>

(* line 200 *)
Finish ==
    /\ pc = "loop"
    /\ i = Len(rows)
    /\ console' = console \o <<Note("DONE", "Done")>>
    /\ pc' = "done"
    /\ UNCHANGED <<args, HAS_PILMOJI, fs, csvfile, font, base_image, rows,
                   mode2, i, image_cache, written, loads, gin, gout>>

Next == LoadFont \/ LoadBaseImage \/ ReadCsv \/ DetectMode \/ ProcessRow \/ Finish

Spec == Init /\ [][Next]_vars

(* --------------- the geometry functions called on their own ------------ *)
Call(op, anchor, img_w, img_h, obj_w, obj_h, ox, oy, overlay_width) ==
    [op |-> op, anchor |-> anchor, img_w |-> img_w, img_h |-> img_h,
     obj_w |-> obj_w, obj_h |-> obj_h, ox |-> ox, oy |-> oy,
     overlay_width |-> overlay_width]

(* get_xy over every anchor, container, object and offset within the       *)
(* bounds, offsets below zero included; draw_image_overlay over every      *)
(* overlay size and requested width on the largest container               *)
GeomCalls ==
    { Call("get_xy", anchor, img_w, img_h, obj_w, obj_h, ox, oy, 0) :
        anchor \in ANCHORS, img_w \in 1..MaxDim, img_h \in 1..MaxDim,
        obj_w \in 0..MaxDim, obj_h \in 0..MaxDim,
        ox \in (0 - 1)..MaxOff, oy \in (0 - 1)..MaxOff }
    \cup
    { Call("draw_image_overlay", anchor, MaxDim, MaxDim, obj_w, obj_h, o, o,
           overlay_width) :
        anchor \in ANCHORS, obj_w \in 1..MaxDim, obj_h \in 1..MaxDim,
        o \in 0..MaxOff, overlay_width \in 0..MaxDim }

InitGeom ==
    /\ args = Args(<<>>, <<>>, P_csv)
    /\ HAS_PILMOJI = FALSE
    /\ fs = FILES
    /\ csvfile = <<>>
    /\ pc = "idle"
    /\ font = <<>>
    /\ base_image = NoImage
    /\ rows = <<>>
    /\ mode2 = FALSE
    /\ i = 0
    /\ image_cache = <<>>
    /\ console = <<>>
    /\ written = <<>>
    /\ loads = <<>>
    /\ gin \in GeomCalls
    /\ gout = NoResult

CallGetXY ==
    /\ pc = "idle"
    /\ gin.op = "get_xy"
    /\ gout' = [raised |-> FALSE,
                val |-> get_xy(gin.anchor, gin.img_w, gin.img_h, gin.obj_w,
                               gin.obj_h, gin.ox, gin.oy)]
    /\ pc' = "returned"
    /\ UNCHANGED <<args, HAS_PILMOJI, fs, csvfile, font, base_image, rows,
                   mode2, i, image_cache, console, written, loads, gin>>

CallDrawImageOverlay ==
    /\ pc = "idle"
    /\ gin.op = "draw_image_overlay"
    /\ gout' = draw_image_overlay([loaded |-> TRUE, w |-> gin.img_w, h |-> gin.img_h],
                                  [loaded |-> TRUE, w |-> gin.obj_w, h |-> gin.obj_h],
                                  gin.overlay_width, gin.anchor, gin.ox, gin.oy)
    /\ pc' = "returned"
    /\ UNCHANGED <<args, HAS_PILMOJI, fs, csvfile, font, base_image, rows,
                   mode2, i, image_cache, console, written, loads, gin>>

NextGeom == CallGetXY \/ CallDrawImageOverlay

SpecGeom == InitGeom /\ [][NextGeom]_vars

(* ============================ properties ============================== *)
RowLines == SelectSeq(console, LAMBDA l : l.kind = "ROW")

Printed(kind) == \E k \in 1..Len(console) : console[k].kind = kind

PassedStartup == Printed("PROCESSING")

WrittenFor(idx) == {k \in 1..Len(written) : written[k].idx = idx}

EndsWith(s, tail) ==
    Len(s) >= Len(tail) /\ SubSeq(s, Len(s) - Len(tail) + 1, Len(s)) = tail

(* the first non-blank record of the CSV file *)
FirstRow ==
    csvfile[CHOOSE k \in 1..Len(csvfile) :
                csvfile[k] # <<>> /\ \A m \in 1..(k - 1) : csvfile[m] = <<>>]

HasRows == \E k \in 1..Len(csvfile) : csvfile[k] # <<>>

(* the mode has been chosen: DetectMode has run on a first row *)
ModeChosen == rows # <<>> /\ pc # "detect"

(* the first field ends in a known image suffix *)
EndsInImageSuffix(first) ==
    /\ Len(first) >= 1
    /\ \E ext \in IMAGE_EXTENSIONS : EndsWith(lower(strip(first[1])), ext)

(* the final path component of the first field is a known image suffix     *)
(* preceded by at least one character                                      *)
HasImageExtension(first) ==
    /\ Len(first) >= 1
    /\ \E ext \in IMAGE_EXTENSIONS :
          LET n == lower(path_name(strip(first[1])))
          IN  EndsWith(n, ext) /\ Len(n) > Len(ext)

CsvMissing == args.csv \notin DOMAIN FILES

FontAbsent == args.font # <<>> /\ expanduser(args.font) \notin DOMAIN FILES

BaseImageMissing == args.image # <<>> /\ expanduser(args.image) \notin DOMAIN FILES

Mode1WithoutBase ==
    /\ ~CsvMissing
    /\ HasRows
    /\ ~(Len(FirstRow) >= 4 \/ HasImageExtension(FirstRow))
    /\ args.image = <<>>

(* C2: under each fatal condition (CSV file missing; Mode 1 selected with  *)
(* no base image, or the supplied base image missing; --font given but     *)
(* the file absent) the run never ends in an uncaught exception, handles   *)
(* no row, writes no image, and ends by printing an error and returning.   *)
C2_FatalErrorsExitCleanly ==
    (CsvMissing \/ FontAbsent \/ BaseImageMissing \/ Mode1WithoutBase) =>
        /\ pc # "raised"
        /\ pc \notin {"loop", "done"}
        /\ RowLines = <<>>
        /\ written = <<>>
        /\ pc = "exited" => Printed("ERROR")

(* C3: once start-up is passed no row stops the loop: the run never ends   *)
(* in an uncaught exception, the rows handled so far have one status line  *)
(* each, in file order and numbered from 1, and the Done line is printed   *)
(* only when every row has its line.                                       *)
C3_SkipAndContinue ==
    PassedStartup =>
        /\ pc # "raised"
        /\ Len(RowLines) = i
        /\ \A k \in 1..Len(RowLines) :
              RowLines[k].idx = k /\ RowLines[k].result \in {"OK", "SKIP"}
        /\ pc = "done" => i = Len(rows)

(* the type and value fields of a row as the loop reads them *)
TypeOf(row) == lower(strip(IF mode2 THEN row[2] ELSE row[1]))

ValueOf(row) ==
    IF mode2 THEN strip(row[3]) ELSE IF Len(row) > 1 THEN strip(row[2]) ELSE <<>>

(* the status lines of rows that reached process_row *)
IsProcessed(line) ==
    line.reason \notin {"not enough columns", "input image not found"}

(* the output path main hands to process_row for a row, stated on its own: *)
(* a name that is absent or blank becomes image_NNNN.jpg of the 1-based    *)
(* row number, a name without an extension gets .jpg, any other name is    *)
(* kept; the file lies in the output directory                             *)
FourDigits(n) ==
    <<DIGITS[((n \div 1000) % 10) + 1], DIGITS[((n \div 100) % 10) + 1],
      DIGITS[((n \div 10) % 10) + 1], DIGITS[(n % 10) + 1]>>

HasExtension(name) ==
    /\ name[Len(name)] # "."
    /\ \E j \in 2..(Len(name) - 1) : name[j] = "."

ExpectedName(row, idx) ==
    LET col   == IF mode2 THEN 4 ELSE 3
        given == IF Len(row) >= col THEN strip(row[col]) ELSE <<>>
    IN  IF given = <<>> THEN PREFIX_image \o FourDigits(idx) \o EXT_jpg
        ELSE IF HasExtension(given) THEN given
        ELSE given \o EXT_jpg

ExpectedPath(row, idx) == OUTPUT_DIR \o <<"/">> \o ExpectedName(row, idx)

(* C4: a text row with no font configured, an image row whose overlay file *)
(* does not exist and a row of any other type are skipped and write no     *)
(* file; a row has a file written exactly when its status is OK, and then  *)
(* exactly one file, at the row's output path.                             *)
C4_RowOutcome ==
    /\ \A k \in 1..Len(RowLines) :
          LET line == RowLines[k]
              row  == rows[line.idx]
          IN  /\ Cardinality(WrittenFor(line.idx)) = IF line.result = "OK" THEN 1 ELSE 0
              /\ \A w \in WrittenFor(line.idx) :
                    written[w].path = line.path /\ line.path = ExpectedPath(row, line.idx)
              /\ IsProcessed(line) =>
                    /\ (TypeOf(row) = T_text /\ args.font = <<>>) => line.result = "SKIP"
                    /\ (TypeOf(row) = T_image
                        /\ expanduser(ValueOf(row)) \notin DOMAIN FILES)
                          => line.result = "SKIP"
                    /\ TypeOf(row) \notin {T_text, T_image} => line.result = "SKIP"
    /\ \A w \in 1..Len(written) :
          \E k \in 1..Len(RowLines) :
              RowLines[k].idx = written[w].idx /\ RowLines[k].result = "OK"

(* C4 witness: a finished run with a written row and a text row skipped    *)
(* for the missing font.                                                   *)
C4_Witness ==
    /\ pc = "done"
    /\ written # <<>>
    /\ \E k \in 1..Len(RowLines) :
          RowLines[k].reason = "--font required for text rows"

(* C5 as stated: in Mode 1 a row with only the type field is skipped and   *)
(* writes no file.                                                         *)
C5_Mode1ShortRowSkipped ==
    \A k \in 1..Len(RowLines) :
        (~mode2 /\ Len(rows[RowLines[k].idx]) < 2) =>
            RowLines[k].result = "SKIP" /\ WrittenFor(RowLines[k].idx) = {}

(* C5 amended: in Mode 2 a row is skipped for its column count exactly     *)
(* when it has fewer than 3 columns; it writes no file and the loop goes   *)
(* on to the next row.  Mode 1 has no column check: a row with only the    *)
(* type field is processed with an empty value, so a text row with a font  *)
(* configured is rendered and written, and any other row is skipped by     *)
(* process_row.                                                            *)
C5_TooFewColumns ==
    \A k \in 1..Len(RowLines) :
        LET line == RowLines[k]
            row  == rows[line.idx]
        IN  /\ (line.reason = "not enough columns") <=> (mode2 /\ Len(row) < 3)
            /\ line.reason = "not enough columns" =>
                  /\ line.result = "SKIP"
                  /\ WrittenFor(line.idx) = {}
                  /\ i >= line.idx
            /\ (~mode2 /\ Len(row) < 2) =>
                  /\ IsProcessed(line)
                  /\ (TypeOf(row) = T_text /\ args.font # <<>>) =>
                        /\ line.result = "OK"
                        /\ line.info[1] = 0
                        /\ WrittenFor(line.idx) # {}
                  /\ ~(TypeOf(row) = T_text /\ args.font # <<>>) =>
                        line.result = "SKIP"

(* C5 witness: in Mode 2 a row with 2 columns was skipped and the row      *)
(* after it was handled.                                                   *)
C5_Witness ==
    /\ mode2
    /\ Len(RowLines) = 2
    /\ RowLines[1].reason = "not enough columns"
    /\ RowLines[2].result = "OK"

(* C6: the output name of a row is image_NNNN.jpg, NNNN the 1-based row    *)
(* number counting skipped rows, when the name column is absent or blank;  *)
(* a given name without an extension gets .jpg; a given name with an       *)
(* extension is used as it is.                                             *)
C6_OutputName ==
    /\ \A k \in 1..Len(RowLines) :
          RowLines[k].result = "OK" =>
              RowLines[k].path = ExpectedPath(rows[RowLines[k].idx], RowLines[k].idx)
    /\ \A w \in 1..Len(written) :
          written[w].path = ExpectedPath(rows[written[w].idx], written[w].idx)

(* C6 witness: row 5 without a name column was written as image_0005.jpg   *)
(* after an earlier row was skipped.                                       *)
C6_Witness ==
    /\ \E w \in 1..Len(written) :
          /\ written[w].idx = 5
          /\ written[w].path =
                OUTPUT_DIR \o <<"/">> \o PREFIX_image \o <<"0", "0", "0", "5">> \o EXT_jpg
    /\ \E k \in 1..Len(RowLines) :
          RowLines[k].idx < 5 /\ RowLines[k].result = "SKIP"

Range(s) == {s[k] : k \in 1..Len(s)}

(* C10: in Mode 2 each distinct path is opened at most once, the cache     *)
(* holds exactly the opened paths, all of files that exist, and every      *)
(* handled row naming an existing file has its path cached; a row naming   *)
(* a missing file is skipped, caches nothing, writes nothing, and the loop *)
(* goes on.  Mode 1 never opens a per-row image.                           *)
C10_ImageCache ==
    /\ \A a, b \in 1..Len(loads) : loads[a] = loads[b] => a = b
    /\ DOMAIN image_cache = Range(loads)
    /\ \A p \in DOMAIN image_cache :
          p \in DOMAIN fs /\ image_cache[p] = image_open(fs, p)
    /\ ~mode2 => loads = <<>>
    /\ \A k \in 1..Len(RowLines) :
          LET line == RowLines[k]
              row  == rows[line.idx]
          IN  /\ (mode2 /\ Len(row) >= 3) =>
                    LET p == expanduser(strip(row[1]))
                    IN  /\ (line.reason = "input image not found") <=> p \notin DOMAIN fs
                        /\ p \in DOMAIN fs => p \in DOMAIN image_cache
              /\ line.reason = "input image not found" =>
                    /\ mode2
                    /\ line.result = "SKIP"
                    /\ WrittenFor(line.idx) = {}
                    /\ i >= line.idx

(* C10 witness: two rows naming the same base image were both written      *)
(* from a single load.                                                     *)
C10_Witness ==
    /\ mode2
    /\ Len(loads) = 1
    /\ Len(written) = 2
    /\ Len(RowLines) = 2

(* ------------------------- geometry properties ------------------------- *)
Returned(op) == pc = "returned" /\ gin.op = op

(* C7 as stated: with offsets >= 0 and the object no larger than the       *)
(* container, x + object width <= container width and y + object height    *)
(* <= container height, for every anchor.                                  *)
C7_NeverExceedsContainer ==
    (/\ Returned("get_xy")
     /\ gin.ox >= 0 /\ gin.oy >= 0
     /\ gin.obj_w <= gin.img_w /\ gin.obj_h <= gin.img_h) =>
        /\ gout.val[1] + gin.obj_w <= gin.img_w
        /\ gout.val[2] + gin.obj_h <= gin.img_h

(* C7 amended: with offsets >= 0 and the object no larger than the         *)
(* container, the object stays within the right/bottom bound on every axis *)
(* anchored at the right or bottom edge or centered; on an axis anchored   *)
(* at the left or top edge it does so exactly when offset + object size    *)
(* <= container size.                                                      *)
C7_Boundary ==
    (/\ Returned("get_xy")
     /\ gin.ox >= 0 /\ gin.oy >= 0
     /\ gin.obj_w <= gin.img_w /\ gin.obj_h <= gin.img_h) =>
        /\ gin.anchor \in {"top-right", "bottom-right", "center"} =>
              gout.val[1] + gin.obj_w <= gin.img_w
        /\ gin.anchor \in {"bottom-left", "bottom-right", "center"} =>
              gout.val[2] + gin.obj_h <= gin.img_h
        /\ gin.anchor \in {"top-left", "bottom-left"} =>
              (gout.val[1] + gin.obj_w <= gin.img_w <=> gin.ox + gin.obj_w <= gin.img_w)
        /\ gin.anchor \in {"top-left", "top-right"} =>
              (gout.val[2] + gin.obj_h <= gin.img_h <=> gin.oy + gin.obj_h <= gin.img_h)

(* C7 witness: a bottom-right placement with positive offsets of an object *)
(* smaller than its container.                                             *)
C7_Witness ==
    /\ Returned("get_xy")
    /\ gin.anchor = "bottom-right"
    /\ gin.ox > 0 /\ gin.oy > 0
    /\ gin.obj_w > 0 /\ gin.obj_w < gin.img_w /\ gin.obj_h < gin.img_h

(* q is the floor of d / 2 *)
IsFloorHalf(q, d) == 2 * q <= d /\ d < 2 * q + 2

(* C8: for the corner anchors the gap between the object and each named    *)
(* edge equals the offset; for center the result is the floor-halved       *)
(* difference of the sizes on each axis, whatever the offsets.             *)
C8_Insets ==
    Returned("get_xy") =>
        LET x == gout.val[1]
            y == gout.val[2]
        IN  /\ gin.anchor \in {"top-left", "bottom-left"} => x = gin.ox
            /\ gin.anchor \in {"top-right", "bottom-right"} =>
                  gin.img_w - (x + gin.obj_w) = gin.ox
            /\ gin.anchor \in {"top-left", "top-right"} => y = gin.oy
            /\ gin.anchor \in {"bottom-left", "bottom-right"} =>
                  gin.img_h - (y + gin.obj_h) = gin.oy
            /\ gin.anchor = "center" =>
                  /\ IsFloorHalf(x, gin.img_w - gin.obj_w)
                  /\ IsFloorHalf(y, gin.img_h - gin.obj_h)

(* C8 witness: a centered placement with non-zero offsets and an odd,      *)
(* negative size difference.                                               *)
C8_Witness ==
    /\ Returned("get_xy")
    /\ gin.anchor = "center"
    /\ gin.ox > 0 /\ gin.oy > 0
    /\ gin.img_w - gin.obj_w = 0 - 1

(* C9 as stated: the overlay is composited with width W and height         *)
(* round(original_height * W / original_width).                            *)
C9_HeightRounded ==
    (Returned("draw_image_overlay") /\ ~gout.raised) =>
        /\ gout.val[1] = gin.overlay_width
        /\ gout.val[2] = round_div(gin.obj_h * gin.overlay_width, gin.obj_w)

(* C9 amended: whenever the overlay is composited its width is W and its   *)
(* height is original_height * W / original_width rounded down; when that  *)
(* height or W is below 1 the resize raises instead.                       *)
C9_HeightTruncated ==
    Returned("draw_image_overlay") =>
        LET exact_num == gin.obj_h * gin.overlay_width
            new_h     == gout.val[2]
        IN  /\ gout.val[1] = gin.overlay_width
            /\ new_h * gin.obj_w <= exact_num
            /\ exact_num < (new_h + 1) * gin.obj_w
            /\ gout.raised <=> (gin.overlay_width < 1 \/ exact_num < gin.obj_w)

(* C9 witness: an overlay was rescaled to a height whose exact value is    *)
(* not an integer.                                                         *)
C9_Witness ==
    /\ Returned("draw_image_overlay")
    /\ ~gout.raised
    /\ (gin.obj_h * gin.overlay_width) % gin.obj_w # 0
====
